---- MODULE Spec2Model ----
(***************************************************************************)
(* Model of ai-code-guard:                                                 *)
(*   - the compliance workflow of app/agents/compliance_agent.py           *)
(*     (RepoNode, AnalyzeRepoNode, AnalyzeComplianceNode, create_workflow, *)
(*     ComplianceChecker.check_repository), run as LangGraph supersteps;   *)
(*   - the batched vector-store build of app/tools/eu_ai_act_handler.py    *)
(*     (EUAIActHandler._create_vectorstore_in_batches), process_ai_act and *)
(*     search_relevant_sections on top of it, the section split and the    *)
(*     chunking of the document;                                           *)
(*   - GitHubHandler.download_repo of app/tools/github_handler.py;         *)
(*   - the JSON preparation of app/ui/ui_helpers.py.                       *)
(***************************************************************************)
EXTENDS Naturals, Integers, Sequences, FiniteSets, TLC

VARIABLES
    pc,          \* position of check_repository: idle / running / returned / raised
    state,       \* the GraphState threaded through the workflow
    pending,     \* nodes triggered for the next superstep of workflow.invoke
    invoked,     \* nodes invoked so far in this check, with the error they were entered with
    calls,       \* collaborator calls made so far in this check
    result,      \* value returned by check_repository
    checks,      \* number of check_repository calls started
    ipc,         \* position inside _create_vectorstore_in_batches
    documents,   \* the documents handed to _create_vectorstore_in_batches
    i,           \* loop variable i (0-based start of the current batch)
    j,           \* position of the per-document fallback loops inside the batch
    vectorstore, \* None, or the documents held by the in-memory FAISS store
    saved,       \* None, or the documents of the snapshot written by save_local
    raise_site,  \* the call whose exception left _create_vectorstore_in_batches
    glog,        \* the FAISS calls of the current build, in order, with their outcome
    ppc,         \* position of search_relevant_sections / process_ai_act
    index,       \* None, or the store process_ai_act returned
    hist,        \* one record per finished search_relevant_sections call
    found,       \* the documents the last search returned
    ai_act_text, \* the text given to _split_into_logical_sections
    sections,    \* the sections it returned
    tpc,         \* position of the section split
    sess,        \* per UI session: position and progress of its process_ai_act
    chunk_size,    \* chunk_size of the text_splitter of process_ai_act
    chunk_overlap, \* its chunk_overlap
    all_documents, \* the documents process_ai_act made of the chunks
    fpc,         \* position of GitHubHandler.download_repo
    request,     \* its arguments url and branch
    remote,      \* the branches github.com serves an archive of for owner/repo
    fetched,     \* what download_repo did: the path and branch it returned, or the error
    jpc,         \* position of process_dict_for_json / process_list_for_json
    data,        \* the value given to it
    processed    \* the value it returned

pipeVars == <<pc, state, pending, invoked, calls, result, checks>>
idxVars == <<ipc, documents, i, j, vectorstore, saved, raise_site, glog>>
procVars == <<ppc, index, hist, found>>
textVars == <<ai_act_text, sections, tpc>>
chunkVars == <<chunk_size, chunk_overlap, all_documents>>
fetchVars == <<fpc, request, remote, fetched>>
jsonVars == <<jpc, data, processed>>
toolVars == <<chunkVars, fetchVars, jsonVars>>
vars == <<pc, state, pending, invoked, calls, result, checks,
          ipc, documents, i, j, vectorstore, saved, raise_site, glog,
          ppc, index, hist, found, ai_act_text, sections, tpc, sess,
          chunk_size, chunk_overlap, all_documents,
          fpc, request, remote, fetched, jpc, data, processed>>

----------------------------------------------------------------------------
(* Bounds *)

MaxChecks == 2
\* batch_size of _create_vectorstore_in_batches, scaled down from the code's 20
\* (src/app/tools/eu_ai_act_handler.py:216) so that three batches stay explorable
batch_size == 4
\* number of search_relevant_sections calls in one process
MaxSearches == 2
\* number of batches of the build a UI session runs
SessBatches == 2
\* largest number of tokens of a text given to _split_into_logical_sections
MaxTextLen == 6
\* largest number of tokens of a text that is split into chunks
MaxChunkTextLen == 5
\* chunk_size and chunk_overlap of the text_splitter, scaled down from the
\* code's 1000 and 100 and counted in tokens, so that short texts need
\* several chunks
SmallChunkSize == 3
SmallChunkOverlap == 1
\* largest number of items of a list given to process_list_for_json
MaxItems == 2
\* largest k given to search_relevant_sections
MaxK == 3
\* largest number of documents handed to one build: three batches
MaxDocs == 2 * batch_size + 1

----------------------------------------------------------------------------
(* Inputs of the workflow *)

RepoUrls == {"https://github.com/o/r", "not-a-url"}
Branches == {"main", "dev"}
RepoPaths == {"/tmp/repo"}
RepoAnalyses == {"summary"}
ComplianceAnalyses == {"assessment"}
\* str(e) of the exception a collaborator raises; "" is an exception without text
ExcTexts == {"", "boom"}

END == "__end__"
NoDict == "{}"
\* Python's None, for a value that is otherwise a record
None == [none |-> TRUE]

Nodes == {"download_repo", "analyze_repo", "analyze_compliance"}

\* what a collaborator call does: return a value or raise an Exception
Returned(vals) == [ok : {TRUE}, val : vals]
Raised == [ok : {FALSE}, text : ExcTexts]

----------------------------------------------------------------------------
(* langgraph.graph.message.add_messages as the nodes use it: the right     *)
(* operand is one {"role", "content"} dict; it is converted to a message   *)
(* object (role "system" -> type "system") with a fresh id, so it never    *)
(* replaces an entry of left and is appended.                              *)
\* add_messages that keeps only the new entry
add_messages_Overwrite(left, right) ==
    <<[type |-> right.role, content |-> right.content]>>

add_messages(left, right) ==
    left \o <<[type |-> right.role, content |-> right.content]>>

SystemMsg(text) == [role |-> "system", content |-> text]

\* the initial_state of check_repository
initial_state(repo_url, branch) ==
    [repo_url |-> repo_url,
     branch |-> branch,
     repo_path |-> "",
     repo_analysis |-> NoDict,
     compliance_analysis |-> NoDict,
     messages |-> << >>,
     current_step |-> "download_repo",
     status |-> "starting",
     error |-> ""]

\* A node call yields the returned state, the collaborator calls it made (with
\* what each did) and whether an exception left the node.
NodeResult(st, cs, exc) == [state |-> st, calls |-> cs, exc |-> exc]

Call(fn, o) == [fn |-> fn, outcome |-> o]

\* RepoNode whose error is the bare exception text, without the stage prefix
RepoNode_BareError(s, o) ==
    IF s.error # ""
    THEN NodeResult(s, << >>, FALSE)
    ELSE IF o.ok
         THEN NodeResult(
                [s EXCEPT !.repo_path = o.val,
                          !.current_step = "analyze_repo",
                          !.status = "downloaded_repo",
                          !.messages = add_messages(@, SystemMsg("Successfully downloaded"))],
                <<Call("download_repo", o)>>, FALSE)
         ELSE NodeResult(
                [s EXCEPT !.error = o.text,
                          !.status = "error",
                          !.messages = add_messages(@, SystemMsg(o.text))],
                <<Call("download_repo", o)>>, FALSE)

\* RepoNode without its try/except: the exception of download_repo leaves the node
RepoNode_NoCatch(s, o) ==
    IF s.error # ""
    THEN NodeResult(s, << >>, FALSE)
    ELSE IF o.ok
         THEN NodeResult(
                [s EXCEPT !.repo_path = o.val,
                          !.current_step = "analyze_repo",
                          !.status = "downloaded_repo",
                          !.messages = add_messages(@, SystemMsg("Successfully downloaded"))],
                <<Call("download_repo", o)>>, FALSE)
         ELSE NodeResult(s, <<Call("download_repo", o)>>, TRUE)

\* RepoNode.__call__ ; o is what github_handler.download_repo does if called
RepoNode(s, o) ==
    IF s.error # ""
    THEN NodeResult(s, << >>, FALSE)
    ELSE IF o.ok
         THEN NodeResult(
                [s EXCEPT !.repo_path = o.val,
                          !.current_step = "analyze_repo",
                          !.status = "downloaded_repo",
                          !.messages = add_messages(@, SystemMsg(
                              "Successfully downloaded repository from " \o s.repo_url
                              \o " (branch: " \o s.branch \o ") to " \o o.val))],
                <<Call("download_repo", o)>>, FALSE)
         ELSE LET error_message == "Error downloading repository: " \o o.text
              IN NodeResult(
                   [s EXCEPT !.error = error_message,
                             !.status = "error",
                             !.messages = add_messages(@, SystemMsg(error_message))],
                   <<Call("download_repo", o)>>, FALSE)

\* AnalyzeRepoNode that moves current_step on even when the analysis raised
AnalyzeRepoNode_ErrorAdvances(s, o) ==
    IF s.error # ""
    THEN NodeResult(s, << >>, FALSE)
    ELSE IF o.ok
         THEN NodeResult(
                [s EXCEPT !.repo_analysis = o.val,
                          !.current_step = "analyze_compliance",
                          !.status = "analyzed_repo",
                          !.messages = add_messages(@, SystemMsg(
                              "Successfully analyzed repository code"))],
                <<Call("analyze_repository", o)>>, FALSE)
         ELSE LET error_message == "Error analyzing repository: " \o o.text
              IN NodeResult(
                   [s EXCEPT !.error = error_message,
                             !.status = "error",
                             !.current_step = "analyze_compliance",
                             !.messages = add_messages(@, SystemMsg(error_message))],
                   <<Call("analyze_repository", o)>>, FALSE)

\* AnalyzeRepoNode without the check of state["error"]
AnalyzeRepoNode_NoGuard(s, o) ==
    IF o.ok
    THEN NodeResult(
           [s EXCEPT !.repo_analysis = o.val,
                     !.current_step = "analyze_compliance",
                     !.status = "analyzed_repo",
                     !.messages = add_messages(@, SystemMsg(
                         "Successfully analyzed repository code"))],
           <<Call("analyze_repository", o)>>, FALSE)
    ELSE LET error_message == "Error analyzing repository: " \o o.text
         IN NodeResult(
              [s EXCEPT !.error = error_message,
                        !.status = "error",
                        !.messages = add_messages(@, SystemMsg(error_message))],
              <<Call("analyze_repository", o)>>, FALSE)

\* AnalyzeRepoNode whose error guard logs the skipped stage
AnalyzeRepoNode_GuardAppends(s, o) ==
    IF s.error # ""
    THEN NodeResult(
           [s EXCEPT !.messages = add_messages(@, SystemMsg("Skipped: " \o s.error))],
           << >>, FALSE)
    ELSE IF o.ok
         THEN NodeResult(
                [s EXCEPT !.repo_analysis = o.val,
                          !.current_step = "analyze_compliance",
                          !.status = "analyzed_repo",
                          !.messages = add_messages(@, SystemMsg(
                              "Successfully analyzed repository code"))],
                <<Call("analyze_repository", o)>>, FALSE)
         ELSE LET error_message == "Error analyzing repository: " \o o.text
              IN NodeResult(
                   [s EXCEPT !.error = error_message,
                             !.status = "error",
                             !.messages = add_messages(@, SystemMsg(error_message))],
                   <<Call("analyze_repository", o)>>, FALSE)

\* AnalyzeRepoNode.__call__ ; o is what code_analyzer.analyze_repository does if called
AnalyzeRepoNode(s, o) ==
    IF s.error # ""
    THEN NodeResult(s, << >>, FALSE)
    ELSE IF o.ok
         THEN NodeResult(
                [s EXCEPT !.repo_analysis = o.val,
                          !.current_step = "analyze_compliance",
                          !.status = "analyzed_repo",
                          !.messages = add_messages(@, SystemMsg(
                              "Successfully analyzed repository code"))],
                <<Call("analyze_repository", o)>>, FALSE)
         ELSE LET error_message == "Error analyzing repository: " \o o.text
              IN NodeResult(
                   [s EXCEPT !.error = error_message,
                             !.status = "error",
                             !.messages = add_messages(@, SystemMsg(error_message))],
                   <<Call("analyze_repository", o)>>, FALSE)

\* AnalyzeComplianceNode without the check of state["error"]
AnalyzeComplianceNode_NoGuard(s, o) ==
    IF o.ok
    THEN NodeResult(
           [s EXCEPT !.compliance_analysis = o.val,
                     !.current_step = "end",
                     !.status = "completed",
                     !.messages = add_messages(@, SystemMsg(
                         "Successfully analyzed compliance with EU AI Act"))],
           <<Call("analyze_compliance", o)>>, FALSE)
    ELSE LET error_message == "Error analyzing compliance: " \o o.text
         IN NodeResult(
              [s EXCEPT !.error = error_message,
                        !.status = "error",
                        !.messages = add_messages(@, SystemMsg(error_message))],
              <<Call("analyze_compliance", o)>>, FALSE)

\* AnalyzeComplianceNode that records str(e) without the stage prefix
AnalyzeComplianceNode_BareError(s, o) ==
    IF s.error # ""
    THEN NodeResult(s, << >>, FALSE)
    ELSE IF o.ok
         THEN NodeResult(
                [s EXCEPT !.compliance_analysis = o.val,
                          !.current_step = "end",
                          !.status = "completed",
                          !.messages = add_messages(@, SystemMsg(
                              "Successfully analyzed compliance with EU AI Act"))],
                <<Call("analyze_compliance", o)>>, FALSE)
         ELSE NodeResult(
                [s EXCEPT !.error = o.text,
                          !.status = "error",
                          !.messages = add_messages(@, SystemMsg(o.text))],
                <<Call("analyze_compliance", o)>>, FALSE)

\* AnalyzeComplianceNode whose success branch leaves status as it was
AnalyzeComplianceNode_NoStatus(s, o) ==
    IF s.error # ""
    THEN NodeResult(s, << >>, FALSE)
    ELSE IF o.ok
         THEN NodeResult(
                [s EXCEPT !.compliance_analysis = o.val,
                          !.current_step = "end",
                          !.messages = add_messages(@, SystemMsg(
                              "Successfully analyzed compliance with EU AI Act"))],
                <<Call("analyze_compliance", o)>>, FALSE)
         ELSE LET error_message == "Error analyzing compliance: " \o o.text
              IN NodeResult(
                   [s EXCEPT !.error = error_message,
                             !.status = "error",
                             !.messages = add_messages(@, SystemMsg(error_message))],
                   <<Call("analyze_compliance", o)>>, FALSE)

\* AnalyzeComplianceNode.__call__ ; o is what compliance_analyzer.analyze_compliance
\* (retrieval plus assessment) does if called
AnalyzeComplianceNode(s, o) ==
    IF s.error # ""
    THEN NodeResult(s, << >>, FALSE)
    ELSE IF o.ok
         THEN NodeResult(
                [s EXCEPT !.compliance_analysis = o.val,
                          !.current_step = "end",
                          !.status = "completed",
                          !.messages = add_messages(@, SystemMsg(
                              "Successfully analyzed compliance with EU AI Act"))],
                <<Call("analyze_compliance", o)>>, FALSE)
         ELSE LET error_message == "Error analyzing compliance: " \o o.text
              IN NodeResult(
                   [s EXCEPT !.error = error_message,
                             !.status = "error",
                             !.messages = add_messages(@, SystemMsg(error_message))],
                   <<Call("analyze_compliance", o)>>, FALSE)

----------------------------------------------------------------------------
(* create_workflow: the graph *)

\* workflow.add_edge(...)
StaticEdges ==
    {<<"download_repo", "analyze_repo">>,
     <<"analyze_repo", "analyze_compliance">>,
     <<"analyze_compliance", END>>}

\* conditional edges whose analyze_repo lambda names the wrong node on success
ConditionalEdges_Back(n, s) ==
    CASE n = "download_repo" ->
           {IF s.error # "" THEN "error" ELSE "analyze_repo"}
      [] n = "analyze_repo" ->
           {IF s.error # "" THEN "error" ELSE "download_repo"}
      [] OTHER -> {}

\* workflow.add_conditional_edges(...): the destination each lambda returns
ConditionalEdges(n, s) ==
    CASE n = "download_repo" ->
           {IF s.error # "" THEN "error" ELSE "analyze_repo"}
      [] n = "analyze_repo" ->
           {IF s.error # "" THEN "error" ELSE "analyze_compliance"}
      [] OTHER -> {}

\* Every outgoing edge of a node that ran is followed: the unconditional ones
\* and the destination of its conditional edge.  A destination that names no
\* node of the graph ("error", END) triggers nothing.
Successors(n, s) ==
    ({e[2] : e \in {d \in StaticEdges : d[1] = n}} \cup ConditionalEdges(n, s))
    \cap Nodes

\* the node registered under a name by workflow.add_node
CallNode(n, s, o) ==
    CASE n = "download_repo" -> RepoNode(s, o)
      [] n = "analyze_repo" -> AnalyzeRepoNode(s, o)
      [] n = "analyze_compliance" -> AnalyzeComplianceNode(s, o)

\* what the collaborator of a node can do when it is called
OutcomesOf(n) ==
    CASE n = "download_repo" -> Returned(RepoPaths) \cup Raised
      [] n = "analyze_repo" -> Returned(RepoAnalyses) \cup Raised
      [] n = "analyze_compliance" -> Returned(ComplianceAnalyses) \cup Raised

\* number of the superstep about to run
StepNo == IF invoked = << >> THEN 1 ELSE invoked[Len(invoked)].step + 1

Entry(n) == [node |-> n, error |-> state.error, step |-> StepNo]

RECURSIVE SetToSeq(_)
SetToSeq(S) ==
    IF S = {} THEN << >>
    ELSE LET x == CHOOSE y \in S : TRUE IN <<x>> \o SetToSeq(S \ {x})

RECURSIVE Flatten(_)
Flatten(ss) == IF ss = << >> THEN << >> ELSE Head(ss) \o Flatten(Tail(ss))

----------------------------------------------------------------------------
(* ComplianceChecker.check_repository *)

\* check_repository builds initial_state and calls workflow.invoke, which
\* triggers the entry point download_repo
StartCheck ==
    /\ pc \in {"idle", "returned"}
    /\ checks < MaxChecks
    /\ \E repo_url \in RepoUrls, branch \in Branches :
          state' = initial_state(repo_url, branch)
    /\ pending' = {"download_repo"}
    /\ invoked' = << >>
    /\ calls' = << >>
    /\ result' = None
    /\ checks' = checks + 1
    /\ pc' = "running"
    /\ UNCHANGED <<idxVars, procVars, textVars, sess, toolVars>>

\* One superstep of workflow.invoke: every triggered node runs on the current
\* state, its returned dict is written back, and its outgoing edges trigger
\* the nodes of the next superstep.  Two nodes in one superstep would each
\* write every key of the state, which the single-valued state channels
\* reject with InvalidUpdateError.
Superstep ==
    /\ pc = "running"
    /\ pending # {}
    /\ IF Cardinality(pending) = 1
       THEN LET n == CHOOSE m \in pending : TRUE
            IN \E o \in OutcomesOf(n) :
                 LET r == CallNode(n, state, o)
                 IN /\ state' = r.state
                    /\ calls' = calls \o r.calls
                    /\ invoked' = Append(invoked, Entry(n))
                    /\ pending' = IF r.exc THEN {} ELSE Successors(n, r.state)
                    /\ pc' = IF r.exc THEN "raised" ELSE pc
       ELSE LET ns == SetToSeq(pending)
            IN \E os \in [pending -> UNION {OutcomesOf(m) : m \in pending}] :
                 /\ \A m \in pending : os[m] \in OutcomesOf(m)
                 /\ state' = state
                 /\ calls' = calls \o
                       Flatten([k \in 1..Len(ns) |-> CallNode(ns[k], state, os[ns[k]]).calls])
                 /\ invoked' = invoked \o [k \in 1..Len(ns) |-> Entry(ns[k])]
                 /\ pending' = {}
                 /\ pc' = "raised"
    /\ UNCHANGED <<result, checks>>
    /\ UNCHANGED <<idxVars, procVars, textVars, sess, toolVars>>

\* no node is triggered any more: invoke returns the state and
\* check_repository returns it
InvokeReturn ==
    /\ pc = "running"
    /\ pending = {}
    /\ result' = state
    /\ pc' = "returned"
    /\ UNCHANGED <<state, pending, invoked, calls, checks>>
    /\ UNCHANGED <<idxVars, procVars, textVars, sess, toolVars>>

PipeInit ==
    /\ pc = "idle"
    /\ state = initial_state("", "main")
    /\ pending = {}
    /\ invoked = << >>
    /\ calls = << >>
    /\ result = None
    /\ checks = 0

IdxInit ==
    /\ ipc = "idle"
    /\ documents = 0
    /\ i = 0
    /\ j = 0
    /\ vectorstore = None
    /\ saved = None
    /\ raise_site = ""
    /\ glog = << >>

\* no search_relevant_sections call was made
ProcIdle ==
    /\ ppc = "idle"
    /\ index = None
    /\ hist = << >>
    /\ found = << >>

\* no text was split
TextIdle ==
    /\ ai_act_text = << >>
    /\ sections = << >>
    /\ tpc = "idle"

Sessions == {"s1", "s2"}

\* no UI session is inside process_ai_act
SessIdle ==
    sess = [s \in Sessions |-> [pc |-> "idle", batches |-> 0, docs |-> 0]]

\* the text_splitter parameters of process_ai_act
CodeChunkSize == 1000
CodeChunkOverlap == 100

ChunkIdle ==
    /\ chunk_size = CodeChunkSize
    /\ chunk_overlap = CodeChunkOverlap
    /\ all_documents = << >>

FetchIdle ==
    /\ fpc = "idle"
    /\ request = None
    /\ remote = {}
    /\ fetched = None

JsonIdle ==
    /\ jpc = "idle"
    /\ data = None
    /\ processed = None

ToolIdle == ChunkIdle /\ FetchIdle /\ JsonIdle

Init == PipeInit /\ IdxInit /\ ProcIdle /\ TextIdle /\ SessIdle /\ ToolIdle

Next == StartCheck \/ Superstep \/ InvokeReturn

Spec == Init /\ [][Next]_vars

\* workflow.invoke runs its supersteps to the end once started, and every
\* collaborator call returns or raises
LiveSpec == Spec /\ WF_vars(Superstep) /\ WF_vars(InvokeReturn)

----------------------------------------------------------------------------
(* The stage functions called directly, on any state *)

SomeMessage == [type |-> "system", content |-> "earlier entry"]

StageInputs ==
    [repo_url : {"https://github.com/o/r"},
     branch : {"main"},
     repo_path : {"", "/tmp/repo"},
     repo_analysis : {NoDict, "summary"},
     compliance_analysis : {NoDict},
     messages : {<< >>, <<SomeMessage>>},
     current_step : {"download_repo", "analyze_repo", "analyze_compliance"},
     status : {"starting", "downloaded_repo", "error"},
     error : {"", "download failed"}]

StageInit ==
    /\ pc = "stage"
    /\ state \in StageInputs
    /\ pending = {}
    /\ invoked = << >>
    /\ calls = << >>
    /\ result = None
    /\ checks = 0
    /\ IdxInit
    /\ ProcIdle
    /\ TextIdle
    /\ SessIdle
    /\ ToolIdle

\* node(state) for one of the three nodes; result holds the returned state
StageCall ==
    /\ pc = "stage"
    /\ \E n \in Nodes : \E o \in OutcomesOf(n) :
         LET r == CallNode(n, state, o)
         IN /\ result' = r.state
            /\ calls' = r.calls
            /\ invoked' = <<Entry(n)>>
            /\ pc' = IF r.exc THEN "raised" ELSE "returned"
    /\ UNCHANGED <<state, pending, checks>>
    /\ UNCHANGED <<idxVars, procVars, textVars, sess, toolVars>>

StageSpec == StageInit /\ [][StageCall]_vars

----------------------------------------------------------------------------
(* EUAIActHandler._create_vectorstore_in_batches *)

\* the output dimension of the configured embeddings, and another one
GatewayDim == "dim_a"
OtherDim == "dim_b"

\* a FAISS store: its documents (numbered 1..documents in list order) and the
\* dimension of their vectors
Store(docs) == [docs |-> docs, dim |-> GatewayDim]

\* one FAISS call that embeds docs: its site in the method and whether the
\* embedding succeeded
Embed(op, site, docs, ok) == [op |-> op, site |-> site, docs |-> docs, ok |-> ok]

\* batch = documents[i:batch_end]
batch_end == IF i + batch_size < documents THEN i + batch_size ELSE documents
batch == [k \in 1..(batch_end - i) |-> i + k]
\* len(batch)//2
half == Len(batch) \div 2

\* the for loop goes on with the next batch, or ends and the save follows
Advance ==
    IF i + batch_size < documents
    THEN /\ i' = i + batch_size
         /\ ipc' = "batch"
    ELSE /\ i' = i
         /\ ipc' = "save"

BuildStart ==
    /\ ipc = "idle"
    /\ \E n \in 0..MaxDocs :
         /\ documents' = n
         /\ ipc' = IF n = 0 THEN "save" ELSE "batch"
    /\ i' = 0
    /\ j' = 0
    /\ vectorstore' = None
    /\ raise_site' = ""
    /\ glog' = << >>
    /\ UNCHANGED saved
    /\ UNCHANGED <<pipeVars, procVars, textVars, sess, toolVars>>

\* vectorstore is None: FAISS.from_documents(batch); on an exception the
\* half batch is tried next, if it has a document
FirstBatch ==
    /\ ipc = "batch"
    /\ vectorstore = None
    /\ \E ok \in BOOLEAN :
         /\ glog' = Append(glog, Embed("from_documents", "batch", batch, ok))
         /\ IF ok
            THEN /\ vectorstore' = Store(batch)
                 /\ Advance
                 /\ j' = j
            ELSE IF half > 0
                 THEN /\ ipc' = "half"
                      /\ UNCHANGED <<vectorstore, i, j>>
                 ELSE /\ Advance
                      /\ UNCHANGED <<vectorstore, j>>
    /\ UNCHANGED <<documents, saved, raise_site>>
    /\ UNCHANGED <<pipeVars, procVars, textVars, sess, toolVars>>

\* HalfRetry whose per-document loop starts again at the first document
HalfRetry_RestFromStart ==
    /\ ipc = "half"
    /\ \E ok \in BOOLEAN :
         /\ glog' = Append(glog, Embed("from_documents", "half_batch",
                                       SubSeq(batch, 1, half), ok))
         /\ IF ok
            THEN /\ vectorstore' = Store(SubSeq(batch, 1, half))
                 /\ ipc' = "rest"
                 /\ j' = 0
                 /\ UNCHANGED <<i, raise_site>>
            ELSE /\ ipc' = "raised"
                 /\ raise_site' = "from_documents(half_batch)"
                 /\ UNCHANGED <<vectorstore, i, j>>
    /\ UNCHANGED <<documents, saved>>
    /\ UNCHANGED <<pipeVars, procVars, textVars, sess, toolVars>>

\* FAISS.from_documents(half_batch) inside the except clause: nothing catches
\* what it raises
HalfRetry ==
    /\ ipc = "half"
    /\ \E ok \in BOOLEAN :
         /\ glog' = Append(glog, Embed("from_documents", "half_batch",
                                       SubSeq(batch, 1, half), ok))
         /\ IF ok
            THEN /\ vectorstore' = Store(SubSeq(batch, 1, half))
                 /\ ipc' = "rest"
                 /\ j' = half
                 /\ UNCHANGED <<i, raise_site>>
            ELSE /\ ipc' = "raised"
                 /\ raise_site' = "from_documents(half_batch)"
                 /\ UNCHANGED <<vectorstore, i, j>>
    /\ UNCHANGED <<documents, saved>>
    /\ UNCHANGED <<pipeVars, procVars, textVars, sess, toolVars>>

\* AddOne that builds a new store from the one document
AddOne_Rebuild(site) ==
    /\ \E ok \in BOOLEAN :
         /\ glog' = Append(glog, Embed("from_documents", site, <<batch[j + 1]>>, ok))
         /\ vectorstore' = IF ok THEN Store(<<batch[j + 1]>>) ELSE vectorstore
    /\ IF j + 1 < Len(batch)
       THEN /\ j' = j + 1
            /\ UNCHANGED <<i, ipc>>
       ELSE /\ j' = j + 1
            /\ Advance

\* one round of a per-document loop: vectorstore.add_documents([doc]), the
\* document is skipped when that raises
AddOne(site) ==
    /\ \E ok \in BOOLEAN :
         /\ glog' = Append(glog, Embed("add_documents", site, <<batch[j + 1]>>, ok))
         /\ vectorstore' = IF ok THEN Store(Append(vectorstore.docs, batch[j + 1]))
                           ELSE vectorstore
    /\ IF j + 1 < Len(batch)
       THEN /\ j' = j + 1
            /\ UNCHANGED <<i, ipc>>
       ELSE /\ j' = j + 1
            /\ Advance

\* for doc in batch[len(batch)//2:]
RestItem ==
    /\ ipc = "rest"
    /\ AddOne("rest")
    /\ UNCHANGED <<documents, saved, raise_site>>
    /\ UNCHANGED <<pipeVars, procVars, textVars, sess, toolVars>>

\* AddBatch without the per-document fallback: a failed batch is dropped whole
AddBatch_SkipBatch ==
    /\ ipc = "batch"
    /\ vectorstore # None
    /\ \E ok \in BOOLEAN :
         /\ glog' = Append(glog, Embed("add_documents", "batch", batch, ok))
         /\ vectorstore' = IF ok THEN Store(vectorstore.docs \o batch) ELSE vectorstore
         /\ Advance
         /\ j' = j
    /\ UNCHANGED <<documents, saved, raise_site>>
    /\ UNCHANGED <<pipeVars, procVars, textVars, sess, toolVars>>

\* AddBatch that saves the store after every batch it added
AddBatch_SaveEach ==
    /\ ipc = "batch"
    /\ vectorstore # None
    /\ \E ok \in BOOLEAN :
         IF ok
         THEN /\ glog' = glog \o <<Embed("add_documents", "batch", batch, ok),
                                   Embed("save_local", "batch",
                                         vectorstore.docs \o batch, TRUE)>>
              /\ vectorstore' = Store(vectorstore.docs \o batch)
              /\ saved' = vectorstore'
              /\ Advance
              /\ j' = j
         ELSE /\ glog' = Append(glog, Embed("add_documents", "batch", batch, ok))
              /\ ipc' = "items"
              /\ j' = 0
              /\ UNCHANGED <<vectorstore, i, saved>>
    /\ UNCHANGED <<documents, raise_site>>
    /\ UNCHANGED <<pipeVars, procVars, textVars, sess, toolVars>>

\* vectorstore exists: vectorstore.add_documents(batch); on an exception the
\* documents of the batch are added one by one
AddBatch ==
    /\ ipc = "batch"
    /\ vectorstore # None
    /\ \E ok \in BOOLEAN :
         /\ glog' = Append(glog, Embed("add_documents", "batch", batch, ok))
         /\ IF ok
            THEN /\ vectorstore' = Store(vectorstore.docs \o batch)
                 /\ Advance
                 /\ j' = j
            ELSE /\ ipc' = "items"
                 /\ j' = 0
                 /\ UNCHANGED <<vectorstore, i>>
    /\ UNCHANGED <<documents, saved, raise_site>>
    /\ UNCHANGED <<pipeVars, procVars, textVars, sess, toolVars>>

\* for doc in batch
ItemRetry ==
    /\ ipc = "items"
    /\ AddOne("items")
    /\ UNCHANGED <<documents, saved, raise_site>>
    /\ UNCHANGED <<pipeVars, procVars, textVars, sess, toolVars>>

\* vectorstore.save_local(self.vectorstore_path); return vectorstore.
\* With vectorstore still None the attribute access raises.
Save ==
    /\ ipc = "save"
    /\ IF vectorstore = None
       THEN /\ ipc' = "raised"
            /\ raise_site' = "save_local"
            /\ UNCHANGED <<saved, glog>>
       ELSE /\ saved' = vectorstore
            /\ glog' = Append(glog, Embed("save_local", "end", vectorstore.docs, TRUE))
            /\ ipc' = "done"
            /\ UNCHANGED raise_site
    /\ UNCHANGED <<documents, i, j, vectorstore>>
    /\ UNCHANGED <<pipeVars, procVars, textVars, sess, toolVars>>

IdxNext ==
    BuildStart \/ FirstBatch \/ HalfRetry \/ RestItem \/ AddBatch \/ ItemRetry \/ Save

IdxSpec == Init /\ [][IdxNext]_vars

----------------------------------------------------------------------------
(* EUAIActHandler.process_ai_act and search_relevant_sections                *)
(* (the text file of the AI Act is taken to exist, so download_ai_act         *)
(* returns at once)                                                           *)

\* what can lie at vectorstore_path besides a store written by save_local:
\* a directory FAISS cannot read, and a store written with other embeddings
CorruptSnapshot == [corrupt |-> TRUE]
OtherDimSnapshot(docs) == [docs |-> docs, dim |-> OtherDim]

\* FAISS.load_local(vectorstore_path, embeddings, ...): raises on an
\* unreadable snapshot; the embeddings are only attached for later queries,
\* the dimension of the stored vectors is not compared with theirs
LoadLocal(snapshot) ==
    IF snapshot = CorruptSnapshot
    THEN [ok |-> FALSE]
    ELSE [ok |-> TRUE, store |-> snapshot]

\* the chunk lists the text file can yield: none, one chunk, two batches
ProcDocs == {0, 1, batch_size + 1}
Distances == 0..1

\* the record of the search call that is running or ended last
Current == hist[Len(hist)]
Started(cache, build) ==
    [cache |-> cache, build |-> build, outcome |-> "running", k |-> 0]
Ended(outcome, k) ==
    [hist EXCEPT ![Len(hist)] = [@ EXCEPT !.outcome = outcome, !.k = k]]

\* the position with the smallest distance (the first one among equals)
Nearest(ps, dist) ==
    CHOOSE p \in ps : \A q \in ps : dist[p] < dist[q] \/ (dist[p] = dist[q] /\ p <= q)

\* the first k positions of ps in ascending order of distance
RECURSIVE Ranked(_, _, _)
Ranked(ps, dist, k) ==
    IF ps = {} \/ k = 0 THEN << >>
    ELSE LET p == Nearest(ps, dist)
         IN <<p>> \o Ranked(ps \ {p}, dist, k - 1)

\* vectorstore.similarity_search(query, k=k) on a store whose vectors have
\* the dimension of the query vector: the k nearest records, nearest first,
\* fewer when the store holds fewer
similarity_search(store, dist, k) ==
    LET r == Ranked(DOMAIN store.docs, dist, k)
    IN [n \in 1..Len(r) |-> [doc |-> store.docs[r[n]], distance |-> dist[r[n]]]]

\* process_ai_act with a load failure that is not caught
SearchCall_LoadRaises ==
    /\ ppc \in {"idle", "returned", "raised"}
    /\ Len(hist) < MaxSearches
    /\ IF saved # None /\ LoadLocal(saved).ok
       THEN /\ index' = LoadLocal(saved).store
            /\ hist' = Append(hist, Started("loaded", FALSE))
            /\ ppc' = "search"
            /\ UNCHANGED <<ipc, i, j, vectorstore, raise_site, glog>>
       ELSE IF saved # None
            THEN /\ hist' = Append(hist, [Started("load_failed", FALSE)
                                            EXCEPT !.outcome = "load_raised"])
                 /\ ppc' = "raised"
                 /\ UNCHANGED <<index, ipc, i, j, vectorstore, raise_site, glog>>
            ELSE /\ hist' = Append(hist, Started("none", TRUE))
                 /\ ppc' = "build"
                 /\ ipc' = IF documents = 0 THEN "save" ELSE "batch"
                 /\ i' = 0
                 /\ j' = 0
                 /\ vectorstore' = None
                 /\ raise_site' = ""
                 /\ glog' = << >>
                 /\ index' = None
    /\ UNCHANGED <<documents, saved, found>>
    /\ UNCHANGED <<pipeVars, textVars, sess, toolVars>>

\* process_ai_act that never looks for a snapshot
SearchCall_NoCache ==
    /\ ppc \in {"idle", "returned", "raised"}
    /\ Len(hist) < MaxSearches
    /\ hist' = Append(hist, Started("none", TRUE))
    /\ ppc' = "build"
    /\ ipc' = IF documents = 0 THEN "save" ELSE "batch"
    /\ i' = 0
    /\ j' = 0
    /\ vectorstore' = None
    /\ raise_site' = ""
    /\ glog' = << >>
    /\ index' = None
    /\ UNCHANGED <<documents, saved, found>>
    /\ UNCHANGED <<pipeVars, textVars, sess, toolVars>>

\* search_relevant_sections calls process_ai_act: if vectorstore_path exists
\* and load_local returns, that store is returned; otherwise (no snapshot, or
\* load_local raised and the except clause printed it) the text is chunked
\* and _create_vectorstore_in_batches starts
SearchCall ==
    /\ ppc \in {"idle", "returned", "raised"}
    /\ Len(hist) < MaxSearches
    /\ IF saved # None /\ LoadLocal(saved).ok
       THEN /\ index' = LoadLocal(saved).store
            /\ hist' = Append(hist, Started("loaded", FALSE))
            /\ ppc' = "search"
            /\ UNCHANGED <<ipc, i, j, vectorstore, raise_site, glog>>
       ELSE /\ hist' = Append(hist, Started(IF saved = None THEN "none"
                                             ELSE "load_failed", TRUE))
            /\ ppc' = "build"
            /\ ipc' = IF documents = 0 THEN "save" ELSE "batch"
            /\ i' = 0
            /\ j' = 0
            /\ vectorstore' = None
            /\ raise_site' = ""
            /\ glog' = << >>
            /\ index' = None
    /\ UNCHANGED <<documents, saved, found>>
    /\ UNCHANGED <<pipeVars, textVars, sess, toolVars>>

\* _create_vectorstore_in_batches returned the store: process_ai_act returns it
BuildReturn ==
    /\ ppc = "build"
    /\ ipc = "done"
    /\ index' = vectorstore
    /\ ppc' = "search"
    /\ UNCHANGED <<hist, found>>
    /\ UNCHANGED <<idxVars, pipeVars, textVars, sess, toolVars>>

\* an exception left _create_vectorstore_in_batches: it leaves process_ai_act
\* and search_relevant_sections too
BuildRaise ==
    /\ ppc = "build"
    /\ ipc = "raised"
    /\ hist' = Ended("build_raised", 0)
    /\ ppc' = "raised"
    /\ UNCHANGED <<index, found>>
    /\ UNCHANGED <<idxVars, pipeVars, textVars, sess, toolVars>>

\* search_relevant_sections that does not hand k on (similarity_search then
\* uses its default of 4)
Search_DefaultK ==
    /\ ppc = "search"
    /\ \E k \in 1..MaxK : \E dist \in [DOMAIN index.docs -> Distances] :
         IF index.dim # GatewayDim
         THEN /\ hist' = Ended("search_raised", k)
              /\ ppc' = "raised"
              /\ UNCHANGED found
         ELSE /\ found' = similarity_search(index, dist, 4)
              /\ hist' = Ended("returned", k)
              /\ ppc' = "returned"
    /\ UNCHANGED index
    /\ UNCHANGED <<idxVars, pipeVars, textVars, sess, toolVars>>

\* results = vectorstore.similarity_search(query, k=k); return results.
\* The query fixes the distance of every record.  A store whose vectors have
\* another dimension than the query vector makes the faiss search raise.
Search ==
    /\ ppc = "search"
    /\ \E k \in 1..MaxK : \E dist \in [DOMAIN index.docs -> Distances] :
         IF index.dim # GatewayDim
         THEN /\ hist' = Ended("search_raised", k)
              /\ ppc' = "raised"
              /\ UNCHANGED found
         ELSE /\ found' = similarity_search(index, dist, k)
              /\ hist' = Ended("returned", k)
              /\ ppc' = "returned"
    /\ UNCHANGED index
    /\ UNCHANGED <<idxVars, pipeVars, textVars, sess, toolVars>>

\* the process starts with whatever an earlier process left at vectorstore_path
ProcInit ==
    /\ PipeInit
    /\ ProcIdle
    /\ TextIdle
    /\ SessIdle
    /\ ToolIdle
    /\ ipc = "idle"
    /\ documents \in ProcDocs
    /\ i = 0
    /\ j = 0
    /\ vectorstore = None
    /\ raise_site = ""
    /\ glog = << >>
    /\ saved \in {None, CorruptSnapshot, Store(<<1, 2>>), OtherDimSnapshot(<<1, 2>>)}

ProcNext ==
    \/ SearchCall
    \/ ppc = "build" /\ (FirstBatch \/ HalfRetry \/ RestItem \/ AddBatch \/ ItemRetry \/ Save)
    \/ BuildReturn
    \/ BuildRaise
    \/ Search

ProcSpec == ProcInit /\ [][ProcNext]_vars

----------------------------------------------------------------------------
(* Properties of the workflow *)

StageIndex(n) ==
    CASE n \in {"download_repo"} -> 1
      [] n \in {"analyze_repo", "analyze_repository"} -> 2
      [] n \in {"analyze_compliance"} -> 3

LastCall == calls[Len(calls)]

\* C1: after a stage has set state.error no further stage node is invoked in
\* that check: no node is ever entered with state.error already set.
C1_NoNodeInvokedAfterError ==
    \A k \in 1..Len(invoked) : invoked[k].error = ""

\* C2: once a stage has recorded an error, no collaborator of a later stage
\* is called: a collaborator call that raised is the last call of the check,
\* and state.error is set exactly when the last call raised.
C2_NoDownstreamCalls ==
    /\ \A k \in 1..Len(calls) : ~calls[k].outcome.ok => k = Len(calls)
    /\ state.error # "" <=> (calls # << >> /\ ~LastCall.outcome.ok)

\* a check whose download failed has returned: all three nodes were invoked,
\* one collaborator was called
C2_Witness ==
    /\ pc = "returned"
    /\ state.error # ""
    /\ Len(invoked) = 3
    /\ Len(calls) = 1

\* C3: check_repository never raises, whatever the collaborators do, and what
\* it returns has the keys repo_analysis, compliance_analysis, status, error.
C3_NeverRaises ==
    /\ pc # "raised"
    /\ pc = "returned" =>
         {"repo_analysis", "compliance_analysis", "status", "error"}
             \subseteq DOMAIN result

\* the download raised and the call still returned a state
C3_Witness ==
    /\ pc = "returned"
    /\ Len(calls) = 1
    /\ calls[1].fn = "download_repo"
    /\ ~calls[1].outcome.ok
    /\ result.error # ""

\* C4: a stage function called on a state whose error is non-empty returns a
\* state equal to its input and calls no collaborator.
C4_IdempotentReentry ==
    (pc # "stage" /\ state.error # "") =>
        /\ pc = "returned"
        /\ result = state
        /\ calls = << >>

\* RepoNode called on a state with an error and an earlier message
C4_Witness ==
    /\ pc = "returned"
    /\ state.error = "download failed"
    /\ state.messages # << >>
    /\ invoked[1].node = "download_repo"

StagePrefix(n) ==
    CASE n = "download_repo" -> "Error downloading repository"
      [] n = "analyze_repo" -> "Error analyzing repository"
      [] n = "analyze_compliance" -> "Error analyzing compliance"

\* C5: when the side effect of a stage raises, the stage returns (the
\* exception does not leave it) a state with error = "<prefix>: <message>",
\* status = "error" and exactly one more message, whose content is that error.
C5_ExceptionBecomesError ==
    (pc # "stage" /\ calls # << >> /\ ~calls[1].outcome.ok) =>
        /\ pc = "returned"
        /\ result.error =
             StagePrefix(invoked[1].node) \o ": " \o calls[1].outcome.text
        /\ result.status = "error"
        /\ Len(result.messages) = Len(state.messages) + 1
        /\ SubSeq(result.messages, 1, Len(state.messages)) = state.messages
        /\ result.messages[Len(result.messages)].content = result.error

\* the retrieval/assessment raised "boom" on a state that had a message
C5_Witness ==
    /\ pc = "returned"
    /\ invoked[1].node = "analyze_compliance"
    /\ calls # << >>
    /\ ~calls[1].outcome.ok
    /\ calls[1].outcome.text = "boom"
    /\ state.messages # << >>

\* C6: once state.error is non-empty it keeps its value for the rest of the
\* check.
C6_ErrorFrozen ==
    [][(state.error # "" /\ checks' = checks) => state'.error = state.error]_vars

\* a node was entered with the error already set
C6_Witness ==
    /\ Len(invoked) >= 2
    /\ invoked[Len(invoked)].error # ""
    /\ state.error # ""

\* C7: within a check the message log only grows at its end, by exactly one
\* entry for each stage that executes (calls its collaborator) and by none
\* otherwise; a successful check returns three messages and a check that
\* failed in its n-th stage returns n.
C7_AppendOnlyLog ==
    /\ [][checks' = checks =>
            /\ Len(state'.messages) = Len(state.messages) + (Len(calls') - Len(calls))
            /\ SubSeq(state'.messages, 1, Len(state.messages)) = state.messages
            /\ Len(calls') - Len(calls) \in {0, 1}]_vars
    /\ [](pc = "returned" =>
            /\ result.status = "completed" => Len(result.messages) = 3
            /\ result.error # "" =>
                 Len(result.messages) = StageIndex(LastCall.fn))

\* a check that failed in its second stage has returned two messages
C7_Witness ==
    /\ pc = "returned"
    /\ result.error # ""
    /\ LastCall.fn = "analyze_repository"
    /\ Len(result.messages) = 2
    /\ Len(invoked) = 3

\* C8: the stages run one per superstep, each at most once and in the order
\* download_repo, analyze_repo, analyze_compliance.
C8_SequentialForwardOnly ==
    /\ pc # "raised"
    /\ \A k \in 1..Len(invoked) : invoked[k].step = k
    /\ \A k, l \in 1..Len(invoked) :
         k < l => StageIndex(invoked[k].node) < StageIndex(invoked[l].node)
    /\ Cardinality(pending) <= 1
    /\ \A n \in pending : \A k \in 1..Len(invoked) :
         StageIndex(invoked[k].node) < StageIndex(n)

\* all three stages ran and succeeded
C8_Witness ==
    /\ Len(invoked) = 3
    /\ state.status = "completed"
    /\ Len(calls) = 3

StatusValues == {"starting", "downloaded_repo", "analyzed_repo", "completed", "error"}

\* C9: status is always one of the five values; a started check returns;
\* and it returns either completed with current_step = "end" after three
\* successful stages, or with status = "error" after the first failing one.
C9_RunsToCompletionOrError ==
    /\ [](state.status \in StatusValues)
    /\ [](pc = "returned" =>
            \/ /\ result.status = "completed"
               /\ result.current_step = "end"
               /\ Len(calls) = 3
               /\ \A k \in 1..3 : calls[k].outcome.ok
            \/ /\ result.status = "error"
               /\ calls # << >>
               /\ ~LastCall.outcome.ok
               /\ \A k \in 1..(Len(calls) - 1) : calls[k].outcome.ok)
    /\ (pc = "running" ~> pc = "returned")

\* a check returned completed
C9_Witness ==
    /\ pc = "returned"
    /\ result.status = "completed"
    /\ result.current_step = "end"

----------------------------------------------------------------------------
(* process_ai_act run by the UI sessions of one process                      *)
(* (initialize_session_state gives every session its own ComplianceChecker,  *)
(* hence its own EUAIActHandler; all of them use the same vectorstore_path;  *)
(* the batch loop is followed batch by batch, its retries are in IdxSpec)    *)

InSession(s, rec) == sess' = [sess EXCEPT ![s] = rec]

\* the session's request reaches process_ai_act
SessCall(s) ==
    /\ sess[s].pc = "idle"
    /\ InSession(s, [sess[s] EXCEPT !.pc = "check"])
    /\ UNCHANGED <<pipeVars, idxVars, procVars, textVars, toolVars>>

\* os.path.exists(vectorstore_path) and load_local: no lock is taken
SessCheckCache(s) ==
    /\ sess[s].pc = "check"
    /\ IF saved # None /\ LoadLocal(saved).ok
       THEN InSession(s, [sess[s] EXCEPT !.pc = "ready"])
       ELSE InSession(s, [pc |-> "embed", batches |-> 0, docs |-> 0])
    /\ UNCHANGED <<pipeVars, idxVars, procVars, textVars, toolVars>>

\* one batch of _create_vectorstore_in_batches: it enters the store, or it is
\* dropped; before the store exists a failure can also leave the method
SessEmbedBatch(s) ==
    /\ sess[s].pc = "embed"
    /\ \E outcome \in {"ok", "dropped", "raised"} :
         /\ outcome = "raised" => sess[s].docs = 0
         /\ InSession(s,
              IF outcome = "raised"
              THEN [sess[s] EXCEPT !.pc = "raised"]
              ELSE [pc |-> IF sess[s].batches + 1 < SessBatches THEN "embed" ELSE "save",
                    batches |-> sess[s].batches + 1,
                    docs |-> sess[s].docs + (IF outcome = "ok" THEN 1 ELSE 0)])
    /\ UNCHANGED <<pipeVars, idxVars, procVars, textVars, toolVars>>

\* vectorstore.save_local(self.vectorstore_path)
SessSave(s) ==
    /\ sess[s].pc = "save"
    /\ IF sess[s].docs = 0
       THEN /\ InSession(s, [sess[s] EXCEPT !.pc = "raised"])
            /\ UNCHANGED saved
       ELSE /\ InSession(s, [sess[s] EXCEPT !.pc = "ready"])
            /\ saved' = Store([k \in 1..sess[s].docs |-> k])
    /\ UNCHANGED <<pipeVars, procVars, textVars, toolVars>>
    /\ UNCHANGED <<ipc, documents, i, j, vectorstore, raise_site, glog>>

\* the request ended; the session can send another one
SessDone(s) ==
    /\ sess[s].pc \in {"ready", "raised"}
    /\ InSession(s, [pc |-> "idle", batches |-> 0, docs |-> 0])
    /\ UNCHANGED <<pipeVars, idxVars, procVars, textVars, toolVars>>

SessNext ==
    \E s \in Sessions :
        SessCall(s) \/ SessCheckCache(s) \/ SessEmbedBatch(s) \/ SessSave(s) \/ SessDone(s)

SessSpec == Init /\ [][SessNext]_vars

----------------------------------------------------------------------------
(* EUAIActHandler._split_into_logical_sections                               *)
(* A text is a sequence of tokens; its characters are those of the tokens    *)
(* in order.  No token ends with the beginning of a marker word, so a        *)
(* pattern can only match from the start of a token on.                      *)

Tokens == {"Article", "article", "CHAPTER", "5", "to", " ", "\n"}
\* tokens made of characters \w matches, and of characters \d matches
WordTokens == {"Article", "article", "ARTICLE", "CHAPTER", "Title", "5", "1", "2", "to",
               "PreambleText", "Body", "one.", "two."}
DigitTokens == {"5", "1", "2"}

\* section_markers: the marker words this alphabet can spell, each with the
\* class of the identifier its pattern asks for (r'CHAPTER \w+', r'Article \d+')
MarkerId(tok) ==
    CASE tok \in {"CHAPTER", "Title"} -> WordTokens
      [] tok \in {"Article", "ARTICLE"} -> DigitTokens
      [] OTHER -> {}

Texts == UNION {[1..n -> Tokens] : n \in 0..MaxTextLen}

\* the end (last token) of the longest run of tokens of class cls from p on
RECURSIVE RunEnd(_, _, _)
RunEnd(t, p, cls) ==
    IF p + 1 <= Len(t) /\ t[p + 1] \in cls THEN RunEnd(t, p + 1, cls) ELSE p

\* the combined pattern matches at token p: marker word, one space, identifier
MatchesAt(t, p) ==
    /\ p + 2 <= Len(t)
    /\ MarkerId(t[p]) # {}
    /\ t[p + 1] = " "
    /\ t[p + 2] \in MarkerId(t[p])

\* re.finditer(combined_pattern, text): the starts of the matches, found
\* from left to right, each search going on behind the previous match
RECURSIVE FindIter(_, _)
FindIter(t, p) ==
    IF p > Len(t) THEN << >>
    ELSE IF MatchesAt(t, p)
         THEN <<p>> \o FindIter(t, RunEnd(t, p + 2, MarkerId(t[p])) + 1)
         ELSE FindIter(t, p + 1)

\* section_text.strip(): not only whitespace
NotBlank(t) == \E p \in 1..Len(t) : t[p] \notin {" ", "\n"}

RECURSIVE SelectNotBlank(_)
SelectNotBlank(ss) ==
    IF ss = << >> THEN << >>
    ELSE (IF NotBlank(Head(ss)) THEN <<Head(ss)>> ELSE << >>)
         \o SelectNotBlank(Tail(ss))

\* the split without the preamble section
split_into_logical_sections_NoPreamble(t) ==
    LET matches == FindIter(t, 1)
        spans == [m \in 1..Len(matches) |->
                    IF m = Len(matches)
                    THEN SubSeq(t, matches[m], Len(t))
                    ELSE SubSeq(t, matches[m], matches[m + 1] - 1)]
        kept == SelectNotBlank(spans)
    IN IF kept = << >> THEN <<t>> ELSE kept

split_into_logical_sections(t) ==
    LET matches == FindIter(t, 1)
        spans == [m \in 1..Len(matches) |->
                    IF m = Len(matches)
                    THEN SubSeq(t, matches[m], Len(t))
                    ELSE SubSeq(t, matches[m], matches[m + 1] - 1)]
        kept == SelectNotBlank(spans)
        withPreamble == IF matches # << >> /\ matches[1] > 1
                        THEN <<SubSeq(t, 1, matches[1] - 1)>> \o kept
                        ELSE kept
    IN IF withPreamble = << >> THEN <<t>> ELSE withPreamble

TextInit ==
    /\ PipeInit
    /\ IdxInit
    /\ ProcIdle
    /\ SessIdle
    /\ ToolIdle
    /\ ai_act_text \in Texts
    /\ sections = << >>
    /\ tpc = "input"

\* logical_sections = self._split_into_logical_sections(ai_act_text)
SplitSections ==
    /\ tpc = "input"
    /\ sections' = split_into_logical_sections(ai_act_text)
    /\ tpc' = "split"
    /\ UNCHANGED ai_act_text
    /\ UNCHANGED <<pipeVars, idxVars, procVars, sess, toolVars>>

TextNext == SplitSections

TextSpec == TextInit /\ [][TextNext]_vars

----------------------------------------------------------------------------
(* The chunking of process_ai_act: RecursiveCharacterTextSplitter.split_text *)
(* on every section, then one Document per chunk.  Texts are token           *)
(* sequences as above; the splitter's length function counts tokens, and     *)
(* its last separator "" cuts between tokens.                                *)

\* the texts cut with the scaled chunk_size, which need several chunks
ChunkTokens == {"Article", "Title", "5", "to", " ", "\n"}
ChunkTexts == UNION {[1..n -> ChunkTokens] : n \in 0..MaxChunkTextLen}
\* the texts cut with the code's chunk_size, which fit into one chunk
LabelTokens == {"Article", "ARTICLE", "Title", "5", " ", "\n"}
LabelTexts == UNION {[1..n -> LabelTokens] : n \in 0..MaxChunkTextLen}

\* the document of the two-article scenario
ExampleDocument ==
    <<"PreambleText", "\n", "\n", "Article", " ", "1", "\n", "Body", " ", "one.",
      "\n", "\n", "Article", " ", "2", "\n", "Body", " ", "two.">>

Whitespace == {" ", "\n"}

RECURSIVE LStrip(_)
LStrip(t) == IF t # << >> /\ Head(t) \in Whitespace THEN LStrip(Tail(t)) ELSE t

RECURSIVE RStrip(_)
RStrip(t) ==
    IF t # << >> /\ t[Len(t)] \in Whitespace THEN RStrip(SubSeq(t, 1, Len(t) - 1)) ELSE t

\* str.strip()
Strip(t) == RStrip(LStrip(t))

\* separators=["\n\nArticle", "\n\nTitle", "\nARTICLE ", "\nCHAPTER ", "\n\n", "\n", " ", ""]
separators ==
    << <<"\n", "\n", "Article">>, <<"\n", "\n", "Title">>, <<"\n", "ARTICLE", " ">>,
       <<"\n", "CHAPTER", " ">>, <<"\n", "\n">>, <<"\n">>, <<" ">>, << >> >>

\* pat is found at position p of t
FoundAt(t, pat, p) ==
    /\ p + Len(pat) - 1 <= Len(t)
    /\ SubSeq(t, p, p + Len(pat) - 1) = pat

\* re.search(pat, t), and `pat in t`
Occurs(t, pat) == \E p \in 1..Len(t) : FoundAt(t, pat, p)

\* where the occurrences of pat start that re.split and str.split cut at:
\* from left to right, without overlap
RECURSIVE SepStarts(_, _, _)
SepStarts(t, pat, p) ==
    IF p > Len(t) THEN << >>
    ELSE IF FoundAt(t, pat, p) THEN <<p>> \o SepStarts(t, pat, p + Len(pat))
         ELSE SepStarts(t, pat, p + 1)

RECURSIVE SelectNotEmpty(_)
SelectNotEmpty(ss) ==
    IF ss = << >> THEN << >>
    ELSE (IF Head(ss) # << >> THEN <<Head(ss)>> ELSE << >>) \o SelectNotEmpty(Tail(ss))

\* _split_text_with_regex(text, separator, keep_separator=True): every
\* separator stays at the start of the piece that follows it; "" gives
\* list(text)
split_text_with_regex(t, separator) ==
    IF separator = << >>
    THEN [k \in 1..Len(t) |-> <<t[k]>>]
    ELSE LET st == SepStarts(t, separator, 1)
         IN IF st = << >> THEN SelectNotEmpty(<<t>>)
            ELSE SelectNotEmpty(
                   <<SubSeq(t, 1, st[1] - 1)>>
                   \o [k \in 1..Len(st) |->
                         SubSeq(t, st[k], IF k = Len(st) THEN Len(t) ELSE st[k + 1] - 1)])

\* _join_docs with separator "" and strip_whitespace: no document when the
\* joined text is only whitespace
join_docs(current_doc) ==
    IF Strip(Flatten(current_doc)) = << >> THEN << >> ELSE <<Strip(Flatten(current_doc))>>

\* the while loop of _merge_splits: pieces leave current_doc at the front
\* until what is left is no longer than the overlap and the next piece fits
RECURSIVE PopFront(_, _, _, _)
PopFront(current_doc, d, size, overlap) ==
    LET total == Len(Flatten(current_doc))
    IN IF total > overlap \/ (total + Len(d) > size /\ total > 0)
       THEN PopFront(Tail(current_doc), d, size, overlap)
       ELSE current_doc

\* _merge_splits(splits, "") going on with the pieces still to come
RECURSIVE merge_splits_from(_, _, _, _)
merge_splits_from(splits, current_doc, size, overlap) ==
    IF splits = << >> THEN join_docs(current_doc)
    ELSE LET d == Head(splits)
             total == Len(Flatten(current_doc))
         IN IF total + Len(d) > size /\ current_doc # << >>
            THEN join_docs(current_doc)
                 \o merge_splits_from(Tail(splits),
                                      Append(PopFront(current_doc, d, size, overlap), d),
                                      size, overlap)
            ELSE merge_splits_from(Tail(splits), Append(current_doc, d), size, overlap)

merge_splits(splits, size, overlap) ==
    IF splits = << >> THEN << >> ELSE merge_splits_from(splits, << >>, size, overlap)

\* the first separator of the list that occurs in the text ("" always does)
FirstSeparator(t, seps) ==
    CHOOSE k \in 1..Len(seps) :
        /\ seps[k] = << >> \/ Occurs(t, seps[k])
        /\ \A m \in 1..(k - 1) : seps[m] # << >> /\ ~Occurs(t, seps[m])

\* RecursiveCharacterTextSplitter._split_text: pieces shorter than chunk_size
\* are collected and merged, a longer piece is split with the separators
\* that are left, or kept as it is when none is left
RECURSIVE split_text_rec(_, _, _, _), split_loop(_, _, _, _, _)
split_text_rec(t, seps, size, overlap) ==
    LET k == FirstSeparator(t, seps)
        new_separators == IF seps[k] = << >> THEN << >>
                          ELSE SubSeq(seps, k + 1, Len(seps))
    IN split_loop(split_text_with_regex(t, seps[k]), << >>, new_separators, size, overlap)

split_loop(splits, good_splits, new_separators, size, overlap) ==
    IF splits = << >> THEN merge_splits(good_splits, size, overlap)
    ELSE LET piece == Head(splits)
         IN IF Len(piece) < size
            THEN split_loop(Tail(splits), Append(good_splits, piece),
                            new_separators, size, overlap)
            ELSE merge_splits(good_splits, size, overlap)
                 \o (IF new_separators = << >> THEN <<piece>>
                     ELSE split_text_rec(piece, new_separators, size, overlap))
                 \o split_loop(Tail(splits), << >>, new_separators, size, overlap)

\* text_splitter.split_text(section)
split_text(t, size, overlap) == split_text_rec(t, separators, size, overlap)

\* the part of the text before its first "\n"
RECURSIVE UpToNewline(_)
UpToNewline(t) ==
    IF t = << >> \/ Head(t) = "\n" THEN << >> ELSE <<Head(t)>> \o UpToNewline(Tail(t))

\* text.split(pat)[1].split("\n")[0].strip(): what stands between the first
\* and the second occurrence of pat, up to the end of the line
SplitLabel(t, pat) ==
    LET st == SepStarts(t, pat, 1)
        second == SubSeq(t, st[1] + Len(pat),
                         IF Len(st) >= 2 THEN st[2] - 1 ELSE Len(t))
    IN Strip(UpToNewline(second))

\* the label the metadata gets for the marker word in its two spellings;
\* << >> stands for None and for "", which both leave the key out
Label(t, capitalized, upper) ==
    IF Occurs(t, <<capitalized, " ">>) THEN SplitLabel(t, <<capitalized, " ">>)
    ELSE IF Occurs(t, <<upper, " ">>) THEN SplitLabel(t, <<upper, " ">>)
    ELSE << >>

\* Document(page_content=text, metadata=metadata)
Document(t, chunk_id, section_id, total_chunks) ==
    [page_content |-> t,
     chunk_id |-> chunk_id,
     section_id |-> section_id,
     total_chunks |-> total_chunks,
     article |-> Label(t, "Article", "ARTICLE"),
     title |-> Label(t, "Title", "TITLE")]

\* section_documents with chunk_id counted over the whole document
section_documents_GlobalIds(section, section_idx, size, overlap) ==
    LET texts == split_text(section, size, overlap)
    IN [k \in 1..Len(texts) |-> Document(texts[k], section_idx + k - 1, section_idx, Len(texts))]

\* the section_documents of one round of the loop over logical_sections
section_documents(section, section_idx, size, overlap) ==
    LET texts == split_text(section, size, overlap)
    IN [k \in 1..Len(texts) |-> Document(texts[k], k - 1, section_idx, Len(texts))]

ChunkInit ==
    /\ PipeInit
    /\ IdxInit
    /\ ProcIdle
    /\ SessIdle
    /\ FetchIdle
    /\ JsonIdle
    /\ sections = << >>
    /\ all_documents = << >>
    /\ tpc = "input"
    /\ \/ /\ ai_act_text \in ChunkTexts
          /\ chunk_size = SmallChunkSize
          /\ chunk_overlap = SmallChunkOverlap
       \/ /\ ai_act_text \in LabelTexts \cup {ExampleDocument}
          /\ chunk_size = CodeChunkSize
          /\ chunk_overlap = CodeChunkOverlap

\* the loop over logical_sections: all_documents.extend(section_documents)
ChunkSections ==
    /\ tpc = "split"
    /\ all_documents' = Flatten([k \in 1..Len(sections) |->
                           section_documents(sections[k], k - 1, chunk_size, chunk_overlap)])
    /\ tpc' = "chunked"
    /\ UNCHANGED <<ai_act_text, sections, chunk_size, chunk_overlap>>
    /\ UNCHANGED <<pipeVars, idxVars, procVars, sess, fetchVars, jsonVars>>

ChunkNext == SplitSections \/ ChunkSections

ChunkSpec == ChunkInit /\ [][ChunkNext]_vars

----------------------------------------------------------------------------
(* GitHubHandler.download_repo (app/tools/github_handler.py), the fetch the  *)
(* workflow uses, and download_github_repo (src/ai_code_guard/github.py)     *)

\* a URL as its scheme, host and path segments
Urls == [scheme : {"https", ""},
         host : {"github.com", "gitlab.com", ""},
         path : {<< >>, <<"o">>, <<"o", "r">>, <<"o", "r", "tree">>}]

FetchBranches == {"main", "master", "dev"}

\* what github.com serves for the repository o/r: the branches it has an
\* archive of, and whether it answers at all
Remotes == [branches : SUBSET {"main", "master", "develop", "dev"}, up : BOOLEAN]

\* urlparse(url).path.strip('/').split('/'): without a scheme the whole
\* string is the path
path_parts(url) ==
    IF url.scheme = "" /\ url.host # "" THEN <<url.host>> \o url.path ELSE url.path

\* re.match(r"^https://github\.com/([\w\-]+)/([\w\-]+)(?:\.git)?/?$", url)
MatchesGithubPattern(url) ==
    url.scheme = "https" /\ url.host = "github.com" /\ Len(url.path) = 2

\* response.status_code of requests.get(zip_url)
StatusCode(rem, owner, repo, branch) ==
    IF ~rem.up THEN 500
    ELSE IF owner = "o" /\ repo = "r" /\ branch \in rem.branches THEN 200
    ELSE 404

FetchOk(fn, path, branch) == [fn |-> fn, ok |-> TRUE, path |-> path, branch |-> branch]
FetchError(fn, text) == [fn |-> fn, ok |-> FALSE, error |-> text]

\* for alt_branch in ["master", "main", "develop"]: the first other branch
\* that answers 200, "" when none does
RECURSIVE FirstAlternative(_, _, _, _, _)
FirstAlternative(alts, rem, owner, repo, branch) ==
    IF alts = << >> THEN ""
    ELSE IF Head(alts) # branch /\ StatusCode(rem, owner, repo, Head(alts)) = 200
         THEN Head(alts)
         ELSE FirstAlternative(Tail(alts), rem, owner, repo, branch)

download_repo(url, branch, rem) ==
    LET parts == path_parts(url)
    IN IF Len(parts) < 2
       THEN FetchError("download_repo", "Invalid GitHub URL")
       ELSE LET owner == parts[1]
                repo_name == parts[2]
                first == StatusCode(rem, owner, repo_name, branch)
                alt == IF first = 404
                       THEN FirstAlternative(<<"master", "main", "develop">>,
                                             rem, owner, repo_name, branch)
                       ELSE ""
            IN IF first = 200
               THEN FetchOk("download_repo", "repos/" \o owner \o "_" \o repo_name, branch)
               ELSE IF alt # ""
                    THEN FetchOk("download_repo", "repos/" \o owner \o "_" \o repo_name, alt)
                    ELSE FetchError("download_repo",
                                    "Failed to download repository: HTTP status")

download_github_repo(url, branch, rem) ==
    IF ~MatchesGithubPattern(url)
    THEN FetchError("download_github_repo", "Invalid GitHub repository URL.")
    ELSE IF StatusCode(rem, url.path[1], url.path[2], branch) # 200
         THEN FetchError("download_github_repo",
                         "Could not download repository zip file for branch")
         ELSE FetchOk("download_github_repo", "repos/" \o url.path[2] \o "-" \o branch, branch)

FetchInit ==
    /\ PipeInit
    /\ IdxInit
    /\ ProcIdle
    /\ TextIdle
    /\ SessIdle
    /\ ChunkIdle
    /\ JsonIdle
    /\ fpc = "call"
    /\ request \in [url : Urls, branch : FetchBranches]
    /\ remote \in Remotes
    /\ fetched = None

DownloadRepo ==
    /\ fpc = "call"
    /\ fetched' = download_repo(request.url, request.branch, remote)
    /\ fpc' = "done"
    /\ UNCHANGED <<request, remote>>
    /\ UNCHANGED <<pipeVars, idxVars, procVars, textVars, sess, chunkVars, jsonVars>>

DownloadGithubRepo ==
    /\ fpc = "call"
    /\ fetched' = download_github_repo(request.url, request.branch, remote)
    /\ fpc' = "done"
    /\ UNCHANGED <<request, remote>>
    /\ UNCHANGED <<pipeVars, idxVars, procVars, textVars, sess, chunkVars, jsonVars>>

FetchNext == DownloadRepo \/ DownloadGithubRepo

FetchSpec == FetchInit /\ [][FetchNext]_vars

----------------------------------------------------------------------------
(* custom_json_serializer, process_dict_for_json and process_list_for_json   *)
(* of app/ui/ui_helpers.py.  A Python value is a record with its kind:       *)
(* a str (json.dumps takes it), a message object (content and type), an      *)
(* object with content but no type, any other object, a dict or a list.      *)

Str(v) == [kind |-> "str", v |-> v]
Message(content, type) == [kind |-> "message", content |-> content, type |-> type]
ContentObject(content, class) == [kind |-> "content_object", content |-> content, class |-> class]
Object(repr) == [kind |-> "object", repr |-> repr]
Dict(entries) == [kind |-> "dict", entries |-> entries]
List(elems) == [kind |-> "list", elems |-> elems]

\* json.dumps(value) does not raise TypeError
RECURSIVE JsonSerializable(_)
JsonSerializable(value) ==
    CASE value.kind = "str" -> TRUE
      [] value.kind = "dict" ->
            \A key \in DOMAIN value.entries : JsonSerializable(value.entries[key])
      [] value.kind = "list" ->
            \A n \in 1..Len(value.elems) : JsonSerializable(value.elems[n])
      [] OTHER -> FALSE

custom_json_serializer(obj) ==
    CASE obj.kind = "message" ->
            Dict([key \in {"content", "type"} |->
                    IF key = "content" THEN Str(obj.content) ELSE Str(obj.type)])
      [] obj.kind = "content_object" ->
            Dict([key \in {"content", "type"} |->
                    IF key = "content" THEN Str(obj.content) ELSE Str(obj.class)])
      [] obj.kind = "object" -> Str(obj.repr)
      [] OTHER -> Str("str(obj)")

RECURSIVE process_dict_for_json(_), process_list_for_json(_), ProcessValue(_)

\* the if / elif / else both loops apply to a value
ProcessValue(value) ==
    IF value.kind = "dict" THEN process_dict_for_json(value)
    ELSE IF value.kind = "list" THEN process_list_for_json(value)
    ELSE IF JsonSerializable(value) THEN value
    ELSE custom_json_serializer(value)

process_dict_for_json(data_dict) ==
    Dict([key \in DOMAIN data_dict.entries |-> ProcessValue(data_dict.entries[key])])

\* process_list_for_json that does not go into the dicts of the list
process_list_for_json_Shallow(data_list) ==
    List([n \in 1..Len(data_list.elems) |->
            IF data_list.elems[n].kind = "list"
            THEN process_list_for_json(data_list.elems[n])
            ELSE IF JsonSerializable(data_list.elems[n]) THEN data_list.elems[n]
            ELSE custom_json_serializer(data_list.elems[n])])

process_list_for_json(data_list) ==
    List([n \in 1..Len(data_list.elems) |-> ProcessValue(data_list.elems[n])])

\* the values of the inputs
Leaves ==
    {Str("2023-01-01"),
     Message("This is a system message", "system"),
     Message("This is a human message", "human"),
     ContentObject("text", "Chunk"),
     Object("datetime(2023, 1, 1)")}

DictsOf(keys, values) == {Dict(f) : f \in UNION {[ks -> values] : ks \in SUBSET keys}}
ListsOf(values) == {List(l) : l \in UNION {[1..n -> values] : n \in 0..MaxItems}}

InnerDicts == DictsOf({"timestamp", "nested_message"}, Leaves)
InnerLists == ListsOf(Leaves)

\* a list in a dict in a list in a dict
DeepDict ==
    Dict([key \in {"messages"} |->
            List(<<Dict([k2 \in {"history"} |->
                           List(<<Message("This is an AI message", "ai")>>)])>>)])

JsonDicts == DictsOf({"messages", "metadata"}, Leaves \cup InnerDicts \cup InnerLists)
                \cup {DeepDict}
JsonLists == ListsOf(Leaves \cup InnerDicts) \cup {List(<<l>>) : l \in InnerLists}

JsonInit ==
    /\ PipeInit
    /\ IdxInit
    /\ ProcIdle
    /\ TextIdle
    /\ SessIdle
    /\ ChunkIdle
    /\ FetchIdle
    /\ jpc = "call"
    /\ data \in JsonDicts \cup JsonLists
    /\ processed = None

ProcessDict ==
    /\ jpc = "call"
    /\ data.kind = "dict"
    /\ processed' = process_dict_for_json(data)
    /\ jpc' = "done"
    /\ UNCHANGED data
    /\ UNCHANGED <<pipeVars, idxVars, procVars, textVars, sess, chunkVars, fetchVars>>

ProcessList ==
    /\ jpc = "call"
    /\ data.kind = "list"
    /\ processed' = process_list_for_json(data)
    /\ jpc' = "done"
    /\ UNCHANGED data
    /\ UNCHANGED <<pipeVars, idxVars, procVars, textVars, sess, chunkVars, fetchVars>>

JsonNext == ProcessDict \/ ProcessList

JsonSpec == JsonInit /\ [][JsonNext]_vars

----------------------------------------------------------------------------
(* Properties of the batched build *)

\* C10: a first batch whose halved retry fails too is dropped and the build
\* goes on: no exception leaves _create_vectorstore_in_batches from the halved
\* retry while a later batch is still to be embedded.
C10_HalvedRetryFailureDropsBatch ==
    ~(/\ ipc = "raised"
      /\ raise_site = "from_documents(half_batch)"
      /\ i + batch_size < documents)

\* the documents of the successful embedding calls of a log, in call order
RECURSIVE EmbeddedDocs(_)
EmbeddedDocs(log) ==
    IF log = << >> THEN << >>
    ELSE (IF Head(log).ok /\ Head(log).op # "save_local" THEN Head(log).docs ELSE << >>)
         \o EmbeddedDocs(Tail(log))

\* the build had three batches; the first was built at once, the batch call
\* and every per-document call of the second failed, the third was added
Batch2FailedEntirely ==
    /\ documents > 2 * batch_size
    /\ Len(glog) >= batch_size + 3
    /\ glog[1].ok
    /\ \A k \in 2..(batch_size + 2) : ~glog[k].ok
    /\ glog[batch_size + 3].ok

\* C11: when add_documents(batch) fails on an existing store, the documents
\* of that batch are embedded one by one in order, a document whose own call
\* fails is skipped, and the build goes on; no exception leaves the build once
\* the store exists, the store holds exactly the documents whose embedding
\* succeeded, and with batch 2 of 3 failing entirely the saved index holds
\* the documents of batches 1 and 3.
C11_PerItemFallback ==
    /\ ipc = "raised" => vectorstore = None
    /\ \A k \in 1..Len(glog) :
         (glog[k].op = "add_documents" /\ glog[k].site = "batch" /\ ~glog[k].ok) =>
            /\ \A p \in 1..Len(glog[k].docs) :
                 k + p <= Len(glog) =>
                    /\ glog[k + p].op = "add_documents"
                    /\ glog[k + p].site = "items"
                    /\ glog[k + p].docs = <<glog[k].docs[p]>>
            /\ ipc \in {"items", "batch", "save", "done"}
            /\ (k = Len(glog)) => ipc = "items"
    /\ vectorstore # None => vectorstore.docs = EmbeddedDocs(glog)
    /\ (ipc = "done" /\ Batch2FailedEntirely) =>
          saved = Store([k \in 1..batch_size |-> k]
                        \o [k \in 1..(documents - 2 * batch_size) |-> 2 * batch_size + k])

\* a build whose second batch of three failed entirely has saved its index
C11_Witness ==
    /\ ipc = "done"
    /\ Batch2FailedEntirely

\* C12: a build is aborted only when no document could be embedded at all:
\* it raises exactly when every document was tried and no embedding call
\* succeeded, and then nothing is saved.
C12_AbortOnlyWhenNothingEmbedded ==
    /\ ipc = "raised" =>
         /\ saved = None
         /\ i + batch_size >= documents
         /\ \A k \in 1..Len(glog) : ~glog[k].ok
    /\ (ipc = "done" => \E k \in 1..Len(glog) : glog[k].ok /\ glog[k].op # "save_local")

\* C13: save_local is called at most once per build, only after the last
\* batch (with its retries) was processed, and not at all when the build
\* raises: a snapshot exists only for a finished build and equals its store.
C13_SaveOnlyAfterLoop ==
    /\ \A k \in 1..Len(glog) : glog[k].op = "save_local" =>
         /\ k = Len(glog)
         /\ ipc = "done"
         /\ glog[k].docs = EmbeddedDocs(glog)
    /\ saved # None =>
         /\ ipc = "done"
         /\ i + batch_size >= documents
         /\ saved = vectorstore
    /\ ipc = "raised" => saved = None

\* a three-batch build with a dropped document has saved
C13_Witness ==
    /\ ipc = "done"
    /\ documents > 2 * batch_size
    /\ saved # None
    /\ Len(saved.docs) < documents
    /\ glog[Len(glog)].op = "save_local"

----------------------------------------------------------------------------
(* Properties of process_ai_act and search_relevant_sections *)

\* a search_relevant_sections call starts with this step
CallStarts == Len(hist') = Len(hist) + 1

\* C14: with a snapshot that load_local can read, process_ai_act returns the
\* loaded store and neither embeds nor saves anything; so every call after a
\* call that built and saved the index loads it and starts no build.
C14_CacheHitSkipsBuild ==
    /\ [][(CallStarts /\ saved # None /\ saved # CorruptSnapshot) =>
            /\ ppc' = "search"
            /\ index' = saved
            /\ ~Current'.build
            /\ UNCHANGED <<glog, saved, vectorstore, ipc>>]_vars
    /\ [](\A m, n \in 1..Len(hist) :
            (m < n /\ hist[m].build /\ hist[m].outcome = "returned") =>
               (hist[n].cache = "loaded" /\ ~hist[n].build))

\* the first call built the index, the second one loaded it and returned
C14_Witness ==
    /\ Len(hist) = 2
    /\ hist[1].build
    /\ hist[1].outcome = "returned"
    /\ hist[2].cache = "loaded"
    /\ hist[2].outcome = "returned"
    /\ index = saved

\* C15: a snapshot that cannot be loaded makes process_ai_act build afresh;
\* the load error never leaves the call, and when the build returns, the
\* returned index is the newly built and saved store.
C15_CorruptSnapshotRebuilt ==
    /\ [][(CallStarts /\ saved = CorruptSnapshot) =>
            /\ ppc' = "build"
            /\ Current'.cache = "load_failed"
            /\ Current'.build
            /\ glog' = << >>]_vars
    /\ [](\A n \in 1..Len(hist) : hist[n].outcome # "load_raised")
    /\ []((ppc \in {"search", "returned"} /\ Current.cache = "load_failed") =>
            /\ index = vectorstore
            /\ index = saved
            /\ index.docs = EmbeddedDocs(glog))

\* a call that found a corrupt snapshot has returned results
C15_Witness ==
    /\ ppc = "returned"
    /\ Len(hist) = 1
    /\ Current.cache = "load_failed"
    /\ Current.outcome = "returned"
    /\ saved # CorruptSnapshot

\* C16: a snapshot whose vectors have another dimension than the configured
\* embeddings is never the index process_ai_act returns, and is never searched.
C16_DimensionMismatchRejected ==
    ppc \in {"search", "returned"} => index.dim = GatewayDim

\* C17: at most one build is started in the lifetime of a process, whatever
\* happened to an earlier build or to the snapshot.
C17_AtMostOneBuild ==
    Cardinality({n \in 1..Len(hist) : hist[n].build}) <= 1

\* C18: two sessions of one process are never both between the failed cache
\* check and the end of save_local (the build-and-save path).
C18_SingleWriter ==
    Cardinality({s \in Sessions : sess[s].pc \in {"embed", "save"}}) <= 1

\* C19: search_relevant_sections(query, k) returns min(k, number of records)
\* chunks, nearest first, and no chunk twice.
C19_TopKResults ==
    ppc = "returned" =>
        /\ Len(found) = (IF Current.k < Len(index.docs) THEN Current.k
                         ELSE Len(index.docs))
        /\ Len(found) <= Current.k
        /\ \A m, n \in 1..Len(found) :
             m < n => /\ found[m].distance <= found[n].distance
                      /\ found[m].doc # found[n].doc
        /\ \A m \in 1..Len(found) :
             \E q \in 1..Len(index.docs) : index.docs[q] = found[m].doc

\* a search with k = 2 on an index of more than two records returned, the
\* second result being farther than the first
C19_Witness ==
    /\ ppc = "returned"
    /\ Current.k = 2
    /\ Len(index.docs) > 2
    /\ Len(found) = 2
    /\ found[1].distance < found[2].distance

----------------------------------------------------------------------------
(* Properties of the section split *)

\* the token positions at which the returned sections start
SectionStarts ==
    {1 + Len(Flatten(SubSeq(sections, 1, n - 1))) : n \in 1..Len(sections)}

\* marker words in any letter case, with the identifier they ask for
AnyCaseMarkerId(tok) ==
    CASE tok \in {"CHAPTER"} -> WordTokens
      [] tok \in {"Article", "article"} -> DigitTokens
      [] OTHER -> {}

\* the positions where a marker in any letter case stands at a line start
LineStartMarkers ==
    {p \in 1..Len(ai_act_text) :
        /\ p = 1 \/ ai_act_text[p - 1] = "\n"
        /\ p + 2 <= Len(ai_act_text)
        /\ ai_act_text[p + 1] = " "
        /\ ai_act_text[p + 2] \in AnyCaseMarkerId(ai_act_text[p])}

\* C20: a section starts only at a marker that stands at a line start (or at
\* the start of the text), and every marker at a line start, in any letter
\* case, starts a section.
C20_MarkersAtLineStartsAnyCase ==
    tpc = "split" => SectionStarts = {1} \cup LineStartMarkers

----------------------------------------------------------------------------
(* Properties of the order of the FAISS calls *)

\* vectorstore.docs of now is the beginning of vectorstore.docs of the next state
RecordsKept ==
    /\ vectorstore' # None
    /\ Len(vectorstore'.docs) >= Len(vectorstore.docs)
    /\ SubSeq(vectorstore'.docs, 1, Len(vectorstore.docs)) = vectorstore.docs

\* C27: in one build add_documents is never called before a from_documents
\* call has succeeded, from_documents is never called again after one has
\* succeeded, the store exists exactly when a from_documents call has
\* succeeded, and every later step keeps the records already in the store.
C27_BuildOnceThenExtend ==
    /\ [](\A k \in 1..Len(glog) :
            /\ glog[k].op = "add_documents" =>
                 \E m \in 1..(k - 1) : glog[m].op = "from_documents" /\ glog[m].ok
            /\ glog[k].op = "from_documents" =>
                 \A m \in 1..(k - 1) : ~glog[m].ok)
    /\ [](vectorstore # None <=>
            \E k \in 1..Len(glog) : glog[k].op = "from_documents" /\ glog[k].ok)
    /\ [][vectorstore # None => RecordsKept]_vars

\* the store was created by the halved retry and extended by a later batch
C27_Witness ==
    /\ ipc = "done"
    /\ Len(glog) >= 4
    /\ ~glog[1].ok
    /\ glog[2].op = "from_documents" /\ glog[2].ok
    /\ \E k \in 3..Len(glog) :
         glog[k].op = "add_documents" /\ glog[k].site = "batch" /\ glog[k].ok

\* C30: whatever embedding calls fail, no document is twice in the store and
\* the documents of the store are in the order of the document list; the
\* halved retry and the per-document loop after it take disjoint parts of the
\* batch, and a failed add_documents(batch) has added nothing.
C30_NoDuplicatesInOrder ==
    /\ vectorstore # None =>
         \A m, n \in 1..Len(vectorstore.docs) :
            m < n => vectorstore.docs[m] < vectorstore.docs[n]
    /\ \A k \in 1..Len(glog) :
         /\ glog[k].site = "rest" =>
              \A m \in 1..(k - 1) :
                 glog[m].site = "half_batch" => glog[k].docs[1] > glog[m].docs[Len(glog[m].docs)]
         /\ (glog[k].site = "items" /\ glog[k].ok) =>
              \A m \in 1..(k - 1) :
                 (glog[m].ok /\ glog[m].op # "save_local") =>
                    \A q \in 1..Len(glog[m].docs) : glog[m].docs[q] # glog[k].docs[1]

\* a build that went through the halved retry, its per-document loop and the
\* per-document fallback of a later batch has saved every document
C30_Witness ==
    /\ ipc = "done"
    /\ documents > batch_size
    /\ \E k \in 1..Len(glog) : glog[k].site = "rest" /\ glog[k].ok
    /\ \E k \in 1..Len(glog) : glog[k].site = "items" /\ glog[k].ok
    /\ Len(saved.docs) = documents

----------------------------------------------------------------------------
(* Properties of the progress fields of GraphState *)

\* C28: status is "error" exactly when error is not empty; a stage that
\* failed has written its prefix, so error is not empty even when the
\* exception had no text.
C28_StatusErrorIffError ==
    /\ state.status = "error" <=> state.error # ""
    /\ \A k \in 1..Len(calls) :
         ~calls[k].outcome.ok => (state.error # "" /\ state.status = "error")
    /\ pc = "returned" => (result.status = "error" <=> result.error # "")

\* a check has returned whose download raised an exception without text
C28_Witness ==
    /\ pc = "returned"
    /\ result.status = "error"
    /\ result.error = "Error downloading repository: "

StagesPassed ==
    CASE state.current_step = "download_repo" -> 0
      [] state.current_step = "analyze_repo" -> 1
      [] state.current_step = "analyze_compliance" -> 2
      [] state.current_step = "end" -> 3
      [] OTHER -> 4

\* C29: without an error (current_step, status) is one of the four pairs;
\* repo_path, repo_analysis and compliance_analysis are set exactly for the
\* stages passed, with or without an error; with an error current_step is
\* the stage that failed and compliance_analysis is empty; completed means
\* that all three results are set.
C29_ProgressFieldsAgree ==
    /\ state.error = "" =>
         <<state.current_step, state.status>> \in
            {<<"download_repo", "starting">>, <<"analyze_repo", "downloaded_repo">>,
             <<"analyze_compliance", "analyzed_repo">>, <<"end", "completed">>}
    /\ StagesPassed <= 3
    /\ state.repo_path # "" <=> StagesPassed >= 1
    /\ state.repo_analysis # NoDict <=> StagesPassed >= 2
    /\ state.compliance_analysis # NoDict <=> StagesPassed >= 3
    /\ state.error # "" =>
         /\ state.compliance_analysis = NoDict
         /\ state.current_step \in Nodes
         /\ \E t \in ExcTexts : state.error = StagePrefix(state.current_step) \o ": " \o t
    /\ state.status = "completed" =>
         /\ state.repo_path # ""
         /\ state.repo_analysis # NoDict
         /\ state.compliance_analysis # NoDict

\* the second stage failed: the first result is set, the others are not
C29_Witness ==
    /\ pc = "returned"
    /\ state.error # ""
    /\ state.current_step = "analyze_repo"
    /\ state.repo_path # ""
    /\ state.repo_analysis = NoDict

----------------------------------------------------------------------------
(* Properties of the sections as a partition of the text *)

----------------------------------------------------------------------------
(* Properties of the chunks and their metadata *)

\* chunk c lies in the text so that it covers position p
CoversAt(c, p) ==
    \E off \in 1..p :
        /\ p < off + Len(c)
        /\ FoundAt(ai_act_text, c, off)

\* C22: every character of the document is in at least one chunk: each
\* position of the text is covered by a chunk lying in the text there.
C22_ChunksCoverDocument ==
    tpc = "chunked" =>
        \A p \in 1..Len(ai_act_text) :
            \E k \in 1..Len(all_documents) : CoversAt(all_documents[k].page_content, p)

\* the documents made of section number section_id (0-based)
DocsOfSection(section_id) ==
    {k \in 1..Len(all_documents) : all_documents[k].section_id = section_id}

\* C23: section_id is the position of the chunk's section, chunk_id the
\* position of the chunk among the chunks of that section; inside a section
\* the chunk_id values are 0 .. total_chunks-1, each once; total_chunks is
\* the number of chunks of the section; the list is ordered by
\* (section_id, chunk_id).
C23_ChunkIndices ==
    tpc = "chunked" =>
        /\ \A k \in 1..Len(all_documents) :
             LET doc == all_documents[k]
                 texts == split_text(sections[doc.section_id + 1], chunk_size, chunk_overlap)
             IN /\ doc.section_id \in 0..(Len(sections) - 1)
                /\ doc.chunk_id \in 0..(doc.total_chunks - 1)
                /\ doc.total_chunks = Cardinality(DocsOfSection(doc.section_id))
                /\ doc.total_chunks = Len(texts)
                /\ doc.page_content = texts[doc.chunk_id + 1]
        /\ \A k, m \in 1..Len(all_documents) :
             k < m =>
                \/ all_documents[k].section_id < all_documents[m].section_id
                \/ /\ all_documents[k].section_id = all_documents[m].section_id
                   /\ all_documents[k].chunk_id < all_documents[m].chunk_id

\* a text of two sections, the second one cut into two chunks
C23_Witness ==
    /\ tpc = "chunked"
    /\ Len(sections) = 2
    /\ Len(all_documents) = 3
    /\ all_documents[2].section_id = 1 /\ all_documents[2].chunk_id = 0
    /\ all_documents[3].section_id = 1 /\ all_documents[3].chunk_id = 1
    /\ all_documents[3].total_chunks = 2

\* where the marker word, in either spelling, followed by a space is first
\* found in t; 0 when it is not found
FirstToken(t, capitalized, upper) ==
    IF Occurs(t, <<capitalized, " ">>) \/ Occurs(t, <<upper, " ">>)
    THEN CHOOSE p \in 1..Len(t) :
            /\ FoundAt(t, <<capitalized, " ">>, p) \/ FoundAt(t, <<upper, " ">>, p)
            /\ \A q \in 1..(p - 1) :
                 ~(FoundAt(t, <<capitalized, " ">>, q) \/ FoundAt(t, <<upper, " ">>, q))
    ELSE 0

\* the text from behind the first token to the end of that line
LabelToLineEnd(t, capitalized, upper) ==
    LET p == FirstToken(t, capitalized, upper)
    IN IF p = 0 THEN << >> ELSE Strip(UpToNewline(SubSeq(t, p + 2, Len(t))))

\* C24: the article (title) label of a chunk is what follows the first
\* "Article " ("Title ") token, or its upper-case spelling, up to the end of
\* that line; without such a token there is no label.
C24_LabelsFromFirstToken ==
    tpc = "chunked" =>
        \A k \in 1..Len(all_documents) :
            /\ all_documents[k].article =
                  LabelToLineEnd(all_documents[k].page_content, "Article", "ARTICLE")
            /\ all_documents[k].title =
                  LabelToLineEnd(all_documents[k].page_content, "Title", "TITLE")

\* the two-article scenario: a preamble and two sections, each one chunk,
\* with the article labels "1" and "2"
ExampleScenario ==
    (tpc = "chunked" /\ ai_act_text = ExampleDocument) =>
        /\ Len(sections) = 3
        /\ Len(all_documents) = 3
        /\ \A k \in 1..3 : all_documents[k].section_id = k - 1
                           /\ all_documents[k].total_chunks = 1
        /\ all_documents[1].article = << >>
        /\ all_documents[2].article = <<"1">>
        /\ all_documents[3].article = <<"2">>

----------------------------------------------------------------------------
(* Properties of the fetch *)

\* the branch asked for can be downloaded from the repository the URL names
BranchReachable ==
    /\ MatchesGithubPattern(request.url)
    /\ StatusCode(remote, request.url.path[1], request.url.path[2], request.branch) = 200

\* C25: the fetch returns a path only for a valid URL and only for the
\* branch that was asked for; with an invalid URL or an unreachable branch
\* it fails with an error text.
C25_FetchFailsOnInvalidInput ==
    fpc = "done" =>
        /\ fetched.ok <=> BranchReachable
        /\ fetched.ok => fetched.branch = request.branch
        /\ ~fetched.ok => fetched.error # ""

----------------------------------------------------------------------------
(* Properties of the JSON preparation *)

\* out is value with every message replaced by the dict of its content and
\* type, dict keys and list lengths kept, strings kept, and whatever stands
\* for another object serializable
RECURSIVE Converted(_, _)
Converted(value, out) ==
    CASE value.kind = "dict" ->
            /\ out.kind = "dict"
            /\ DOMAIN out.entries = DOMAIN value.entries
            /\ \A key \in DOMAIN value.entries :
                 Converted(value.entries[key], out.entries[key])
      [] value.kind = "list" ->
            /\ out.kind = "list"
            /\ Len(out.elems) = Len(value.elems)
            /\ \A n \in 1..Len(value.elems) : Converted(value.elems[n], out.elems[n])
      [] value.kind = "message" ->
            /\ out.kind = "dict"
            /\ DOMAIN out.entries = {"content", "type"}
            /\ out.entries["content"] = Str(value.content)
            /\ out.entries["type"] = Str(value.type)
      [] value.kind = "str" -> out = value
      [] OTHER -> JsonSerializable(out)

\* C26: the result has the keys and list lengths of the input, every
\* message at any depth is replaced by the dict of its content and type,
\* every serializable value is kept, and json.dumps takes the result.
C26_MessagesBecomeDicts ==
    jpc = "done" =>
        /\ Converted(data, processed)
        /\ JsonSerializable(processed)

\* a dict with a list of messages and a nested dict holding a message
C26_Witness ==
    /\ jpc = "done"
    /\ data.kind = "dict"
    /\ DOMAIN data.entries = {"messages", "metadata"}
    /\ data.entries["messages"] =
          List(<<Message("This is a system message", "system"),
                 Message("This is a human message", "human")>>)
    /\ data.entries["metadata"].kind = "dict"
    /\ DOMAIN data.entries["metadata"].entries = {"timestamp", "nested_message"}
    /\ data.entries["metadata"].entries["nested_message"].kind = "message"
    /\ processed.entries["messages"].elems[1].entries["content"] =
          Str("This is a system message")

====
